---- MODULE Spec2Model ----
(***************************************************************************)
(* Control arbitration of the glazing HMI: the ControlManager (who owns    *)
(* which panel), the command handlers of AppHMI (setPanel, setGroup,       *)
(* clearAll, refresh) with their release timers, and the two backends     *)
(* the handlers talk to (the control service and the in-browser mock).     *)
(***************************************************************************)
EXTENDS Integers, Sequences, FiniteSets, TLC

(* ---------------------------------------------------------------------- *)
(* Universe of the model                                                   *)
(* ---------------------------------------------------------------------- *)

\* panel ids, group ids and routine ids the calls are drawn from
PanelIds == {"P01", "P02"}
GroupIds == {"G1", "G2"}
RoutineIds == {"R1"}

\* the components that subscribe to the ControlManager
Listeners == {"L1", "L2"}

\* the panelIds arrays a direct caller of the ControlManager passes: every
\* subset of PanelIds, in id order
PanelLists == {<<>>, <<"P01">>, <<"P02">>, <<"P01", "P02">>}

\* the set of the elements of an array
Elems(s) == {s[i] : i \in 1..Len(s)}

(* ---------------------------------------------------------------------- *)
(* ControlSource, ControlState                                             *)
(* ---------------------------------------------------------------------- *)

ManualSource(panelId) == [type |-> "manual", panelId |-> panelId]
GroupSource(groupId, panelIds) ==
    [type |-> "group", groupId |-> groupId, panelIds |-> panelIds]
RoutineSource(routineId, panelIds) ==
    [type |-> "routine", routineId |-> routineId, routineName |-> routineId,
     panelIds |-> panelIds]

\* every ControlSource value a caller can pass
ControlSource ==
    {ManualSource(p) : p \in PanelIds}
    \cup {GroupSource(g, l) : g \in GroupIds, l \in PanelLists}
    \cup {RoutineSource(r, l) : r \in RoutineIds, l \in PanelLists}

\* placeholder where no source is meant (the "op" of last says so)
NoSource == [type |-> "none"]

VARIABLES
    \* ControlManager.state
    panelControls,   \* Map panel id -> ControlSource (a function on the keys present)
    activeRoutines,  \* Map routine id -> {name, panelIds, startTime}
    activeGroups,    \* Map group id -> {name, panelIds, startTime}
    \* ControlManager.listeners, and the ControlState each subscriber holds (the
    \* one its component read at mount, then the latest one delivered to it)
    listeners,
    received,
    \* the latest direct call of the ControlManager (CallTakeControl,
    \* CallReleaseControl, CallClearAll) and what it returned
    last,
    \* a ControlState a caller got from getActiveControllers and still holds
    snapshot,
    \* the latest dwell check asked of the service directly: the arguments of
    \* CanChange and its answer
    query,
    \* the PanelTile of one panel: its localLevel, its props panel.level and
    \* busyId, the level it passed to onSet last and the value of the latest
    \* change event of its slider
    tile,
    \* the mockGroups array of App.tsx: records [id, member_ids]
    mockGroups,
    \* the LogsPanel: its auditLogs prop, its filter and sort state, and the
    \* filteredAuditLogs of its latest render
    logsPanel,
    \* Date.now() / 1000
    now,
    \* React state of AppHMI
    panels,          \* Panel[] as last loaded: panel id -> [level, last_change_ts]
    groups,          \* Group[] as last loaded: group id -> member_ids
    busy,            \* id of the busy target, "clear-all", or "null"
    usingMock,
    transitioning,   \* Set<string>
    shown,           \* the showToast calls of the latest step, in order
    \* the event loop
    cmds,            \* the invocations of setPanel / setGroup / clearAll at an await
    timers,          \* the pending setTimeout callbacks, oldest first
    \* the backends
    svcPanels,       \* panels of the control service
    svcGroups,       \* groups of the control service: group id -> member_ids
    mockPanelState,  \* panels of mockApi
    online,          \* the control service answers the requests sent to it
    inflight,        \* the answers to refresh() requests not yet delivered
    appended         \* the entries the service added to its audit log in the latest step

cmVars == <<panelControls, activeRoutines, activeGroups, listeners, received>>
uiVars == <<panels, groups, busy, usingMock, transitioning>>
loopVars == <<cmds, timers>>
storeVars == <<svcPanels, mockPanelState, svcGroups, online, inflight>>
hmiVars == <<uiVars, loopVars, storeVars>>
auxVars == <<snapshot, query, tile, mockGroups, logsPanel>>
vars == <<cmVars, last, auxVars, now, hmiVars, shown, appended>>

\* Map.set and Map.delete
MapSet(m, k, v) == [x \in DOMAIN m \cup {k} |-> IF x = k THEN v ELSE m[x]]
MapDelete(m, k) == [x \in DOMAIN m \ {k} |-> m[x]]
EmptyMap == [x \in {} |-> NoSource]

\* the private state field of the ControlManager as one value
State == [panelControls |-> panelControls,
          activeRoutines |-> activeRoutines,
          activeGroups |-> activeGroups]

getPriority(source) ==
    CASE source.type = "manual" -> 3
      [] source.type = "group" -> 2
      [] source.type = "routine" -> 1

\* the panel ids a source implies
panelIdsOf(source) ==
    IF source.type = "manual" THEN <<source.panelId>> ELSE source.panelIds

IsConflictNoEquality(force, existingPriority, priority) ==
    ~force /\ existingPriority > priority

IsConflictAnyOwner(force, existingPriority, priority) == ~force

IsConflictIgnoringForce(force, existingPriority, priority) ==
    existingPriority >= priority

IsConflictWithLowerOwner(force, existingPriority, priority) ==
    ~force /\ existingPriority <= priority

IsConflictAlways(force, existingPriority, priority) == TRUE

\* the test of takeControl's loop on a panel that has an owner
IsConflict(force, existingPriority, priority) ==
    ~force /\ existingPriority >= priority

\* takeControl's loop over panelIds: the map and the conflicts it ends with
RECURSIVE TakeLoop(_, _, _, _, _)
TakeLoop(pc, source, force, ids, conflicts) ==
    IF ids = <<>> THEN [panelControls |-> pc, conflicts |-> conflicts]
    ELSE LET panelId == Head(ids) IN
         IF panelId \in DOMAIN pc
            /\ IsConflict(force, getPriority(pc[panelId]), getPriority(source))
         THEN TakeLoop(pc, source, force, Tail(ids), Append(conflicts, panelId))
         ELSE TakeLoop(MapSet(pc, panelId, source), source, force, Tail(ids), conflicts)

\* takeControl(source, force) on state st at time t: the new state and the result
takeControl(st, source, force, t) ==
    LET loop == TakeLoop(st.panelControls, source, force, panelIdsOf(source), <<>>)
        entry == [name |-> IF source.type = "group" THEN source.groupId
                           ELSE source.routineName,
                  panelIds |-> source.panelIds, startTime |-> t]
    IN [state |->
          [panelControls |-> loop.panelControls,
           activeGroups |-> IF source.type = "group"
                            THEN MapSet(st.activeGroups, source.groupId, entry)
                            ELSE st.activeGroups,
           activeRoutines |-> IF source.type = "routine"
                              THEN MapSet(st.activeRoutines, source.routineId, entry)
                              ELSE st.activeRoutines],
        success |-> loop.conflicts = <<>>,
        conflicts |-> loop.conflicts]

sourcesMatchTypeOnly(a, b) == a.type = b.type

sourcesMatch(a, b) ==
    IF a.type # b.type THEN FALSE
    ELSE CASE a.type = "manual" -> a.panelId = b.panelId
           [] a.type = "group" -> a.groupId = b.groupId
           [] a.type = "routine" -> a.routineId = b.routineId
           [] OTHER -> FALSE

\* releaseControl's loop over panelIds
RECURSIVE ReleaseLoop(_, _, _)
ReleaseLoop(pc, source, ids) ==
    IF ids = <<>> THEN pc
    ELSE LET panelId == Head(ids) IN
         IF panelId \in DOMAIN pc /\ sourcesMatch(pc[panelId], source)
         THEN ReleaseLoop(MapDelete(pc, panelId), source, Tail(ids))
         ELSE ReleaseLoop(pc, source, Tail(ids))

releaseControl(st, source) ==
    [panelControls |-> ReleaseLoop(st.panelControls, source, panelIdsOf(source)),
     activeGroups |-> IF source.type = "group"
                      THEN MapDelete(st.activeGroups, source.groupId)
                      ELSE st.activeGroups,
     activeRoutines |-> IF source.type = "routine"
                        THEN MapDelete(st.activeRoutines, source.routineId)
                        ELSE st.activeRoutines]

\* clearAll of the ControlManager
clearAllControls ==
    [panelControls |-> EmptyMap, activeRoutines |-> EmptyMap, activeGroups |-> EmptyMap]

getControlSource(st, panelId) ==
    IF panelId \in DOMAIN st.panelControls THEN st.panelControls[panelId] ELSE NoSource

\* getActiveControllers: copies of the three maps
getActiveControllersShared(st) ==
    [fresh |-> FALSE,
     panelControls |-> st.panelControls,
     activeRoutines |-> st.activeRoutines,
     activeGroups |-> st.activeGroups]

\* fresh: the three Maps are new objects (new Map(...)), not those of the state
getActiveControllers(st) ==
    [fresh |-> TRUE,
     panelControls |-> [k \in DOMAIN st.panelControls |-> st.panelControls[k]],
     activeRoutines |-> [k \in DOMAIN st.activeRoutines |-> st.activeRoutines[k]],
     activeGroups |-> [k \in DOMAIN st.activeGroups |-> st.activeGroups[k]]]


(* ---------------------------------------------------------------------- *)
(* The backends                                                            *)
(* ---------------------------------------------------------------------- *)

\* most invocations of the command handlers awaiting at once
MaxCmds == 2
\* most setTimeout callbacks pending at once
MaxTimers == 2
\* most answers to refresh() in flight at once
MaxRefresh == 2
\* the greatest time and the greatest dwell time of a dwell check asked directly
MaxQueryTime == 6
\* the entries the audit log is loaded with at most
MaxLogs == 2

\* the groups mockGroups holds at most
MaxGroups == 4

MaxQueryDwell == 3
\* the clock advances at most MaxTicks times
MaxTicks == 1
\* SVC_MIN_DWELL_SECONDS, the default
MinDwellSeconds == 20
\* the clock is read at the granularity of the dwell time; the 5 s of a release
\* timer are shorter, so a timer may fire between two readings
TickSeconds == MinDwellSeconds

\* age in seconds of the last change of P01 and of P02 in mockPanels
MockAgeP01 == 3600
MockAgeP02 == 3300
\* the clock starts where the mock module is loaded
StartTime == MockAgeP01

\* a level is held in tenths of a percent, so that the non-integer a number
\* input can deliver is a value of the model
Pct(n) == n * 10

\* an integer level within [0,100]
IsLevel(level) == level \in 0..Pct(100) /\ level % Pct(1) = 0

\* the levels the user picks in a tile or with a quick button of the group card
LevelInputs == {Pct(80)}

\* Number(e.target.value) of the group level input: 80, 50.5, 150 typed
TypedLevels == {Pct(80), Pct(50) + 5, Pct(150)}

Min(a, b) == IF a <= b THEN a ELSE b
Max(a, b) == IF a >= b THEN a ELSE b

\* the group level input: Math.max(0, Math.min(100, Number(e.target.value)))
GroupLevelInput(value) == Max(0, Min(Pct(100), value))

\* the groups the service and mockGroups hold, with their member_ids
GroupMembers == [g \in {"G1"} |-> <<"P01", "P02">>]

(* ---------------------------------------------------------------------- *)
(* LogsPanel.tsx: the audit log table                                      *)
(* ---------------------------------------------------------------------- *)

\* a string is the array of its UTF-16 code units: "P01" is <<80, 48, 49>>
toLowerCase(s) == [i \in 1..Len(s) |-> IF s[i] \in 65..90 THEN s[i] + 32 ELSE s[i]]

\* s.trim(): the blanks (code unit 32) at both ends are dropped
RECURSIVE trim(_)
trim(s) ==
    IF s # <<>> /\ s[1] = 32 THEN trim(Tail(s))
    ELSE IF s # <<>> /\ s[Len(s)] = 32 THEN trim(SubSeq(s, 1, Len(s) - 1))
    ELSE s

\* s.includes(needle)
includes(s, needle) ==
    \E i \in 0..(Len(s) - Len(needle)) : SubSeq(s, i + 1, i + Len(needle)) = needle

\* as < bs on strings: by code units, a proper prefix first
RECURSIVE StringLess(_, _)
StringLess(as, bs) ==
    IF bs = <<>> THEN FALSE
    ELSE IF as = <<>> THEN TRUE
    ELSE IF as[1] # bs[1] THEN as[1] < bs[1]
    ELSE StringLess(Tail(as), Tail(bs))

\* timestamps are in ticks of half a millisecond: ts is a float of seconds,
\* and the service's clock is finer than the millisecond
TicksPerMs == 2
MsPerDay == 86400000

\* the value of a date input that is empty; a day is its number otherwise
NoDate == -1

\* dateStringToLocalTimestamp(dateString, isEndOfDay), in ticks: getTime() of
\* the day d at 00:00:00.000 or at 23:59:59.999, in seconds, floored for the
\* start of the day
dateStringToLocalTimestamp(d, isEndOfDay) ==
    LET ms == IF isEndOfDay THEN d * MsPerDay + MsPerDay - 1 ELSE d * MsPerDay
        seconds == ms * TicksPerMs
    IN IF isEndOfDay THEN seconds
       ELSE (seconds \div (1000 * TicksPerMs)) * (1000 * TicksPerMs)

\* AuditLogEntry values: a panel command at noon of day 0, a group command
\* half a millisecond before the end of day 0, a panel command at the start
\* of day 1
AuditEntries ==
    {[ts |-> (MsPerDay * TicksPerMs) \div 2, actor |-> <<104, 109, 105>>, target_type |-> "panel",
      target_id |-> <<80, 48, 49>>, level |-> 50, applied_to |-> << <<80, 48, 49>> >>,
      result |-> <<79, 75>>],
     [ts |-> (MsPerDay * TicksPerMs) - 1, actor |-> <<65, 80, 73>>, target_type |-> "group",
      target_id |-> <<71, 49>>, level |-> 0,
      applied_to |-> << <<80, 48, 49>>, <<80, 48, 50>> >>,
      result |-> <<100, 119, 101, 108, 108>>],
     [ts |-> (MsPerDay * TicksPerMs), actor |-> <<104, 109, 105>>, target_type |-> "panel",
      target_id |-> <<80, 48, 50>>, level |-> 100, applied_to |-> <<>>,
      result |-> <<98, 117, 115, 121>>]}

\* the comparator of sorted.sort: negative, zero or positive
Compare(a, b, sortField, sortDir) ==
    IF sortField \in {"ts", "level"}
    THEN LET av == a[sortField]
             bv == b[sortField]
         IN IF av < bv THEN (IF sortDir = "asc" THEN -1 ELSE 1)
            ELSE IF av > bv THEN (IF sortDir = "asc" THEN 1 ELSE -1)
            ELSE 0
    ELSE LET text(r) == IF sortField # "target_type" THEN r[sortField]
                        ELSE IF r.target_type = "panel" THEN <<112, 97, 110, 101, 108>>
                        ELSE <<103, 114, 111, 117, 112>>
             as == toLowerCase(text(a))
             bs == toLowerCase(text(b))
         IN IF StringLess(as, bs) THEN (IF sortDir = "asc" THEN -1 ELSE 1)
            ELSE IF StringLess(bs, as) THEN (IF sortDir = "asc" THEN 1 ELSE -1)
            ELSE 0

\* Array.prototype.sort, which is stable: e goes behind the elements of the
\* sorted array s that do not come after it
RECURSIVE Inserted(_, _, _, _)
Inserted(s, e, sortField, sortDir) ==
    IF s = <<>> THEN <<e>>
    ELSE IF Compare(s[Len(s)], e, sortField, sortDir) <= 0 THEN Append(s, e)
    ELSE Append(Inserted(SubSeq(s, 1, Len(s) - 1), e, sortField, sortDir), s[Len(s)])

RECURSIVE Sorted(_, _, _)
Sorted(rows, sortField, sortDir) ==
    IF rows = <<>> THEN <<>>
    ELSE Inserted(Sorted(SubSeq(rows, 1, Len(rows) - 1), sortField, sortDir),
                  rows[Len(rows)], sortField, sortDir)

\* a render of the LogsPanel with the props and state p: rows is the value of
\* filteredAuditLogs, auditLogs the array of the prop after the computation
filteredAuditLogs(p) ==
    LET rows0 == p.auditLogs
        rows1 == IF p.startDate # NoDate
                 THEN SelectSeq(rows0, LAMBDA r :
                          r.ts >= dateStringToLocalTimestamp(p.startDate, FALSE))
                 ELSE rows0
        rows2 == IF p.endDate # NoDate
                 THEN SelectSeq(rows1, LAMBDA r :
                          r.ts <= dateStringToLocalTimestamp(p.endDate, TRUE))
                 ELSE rows1
        rows3 == IF p.typeFilter # "all"
                 THEN SelectSeq(rows2, LAMBDA r : r.target_type = p.typeFilter)
                 ELSE rows2
        rows4 == IF trim(p.targetFilter) # <<>>
                 THEN LET needle == toLowerCase(trim(p.targetFilter))
                      IN SelectSeq(rows3, LAMBDA r :
                             \/ includes(toLowerCase(r.target_id), needle)
                             \/ \E i \in 1..Len(r.applied_to) :
                                   includes(toLowerCase(r.applied_to[i]), needle))
                 ELSE rows3
        rows5 == IF trim(p.resultFilter) # <<>>
                 THEN LET needle == toLowerCase(trim(p.resultFilter))
                      IN SelectSeq(rows4, LAMBDA r : includes(toLowerCase(r.result), needle))
                 ELSE rows4
    IN [p EXCEPT !.rows = Sorted(rows5, p.sortField, p.sortDir),
                 !.auditLogs = p.auditLogs]

\* a Group[] as the HMI keeps it, group id -> member_ids: the first group of
\* the array with the id
GroupsOf(arr) ==
    [g \in {arr[i].id : i \in 1..Len(arr)} |->
        arr[CHOOSE i \in 1..Len(arr) :
                arr[i].id = g /\ \A j \in 1..(i - 1) : arr[j].id # g].member_ids]

\* `G-${n}`
GroupIdNumbered(n) == <<"G-1", "G-2", "G-3", "G-4", "G-5", "G-6">>[n]

\* mockApi.createGroup on the array arr with the panels of store: the array
\* afterwards, ok FALSE when it throws
mockCreateGroupUnchecked(arr, store, memberIds) ==
    LET existingIds == {arr[i].id : i \in 1..Len(arr)}
        n == CHOOSE k \in 1..(Len(arr) + 1) :
                 /\ GroupIdNumbered(k) \notin existingIds
                 /\ \A j \in 1..(k - 1) : GroupIdNumbered(j) \in existingIds
    IN [ok |-> TRUE,
        groups |-> Append(arr, [id |-> GroupIdNumbered(n), member_ids |-> memberIds])]

mockCreateGroup(arr, store, memberIds) ==
    LET existingIds == {arr[i].id : i \in 1..Len(arr)}
        n == CHOOSE k \in 1..(Len(arr) + 1) :
                 /\ GroupIdNumbered(k) \notin existingIds
                 /\ \A j \in 1..(k - 1) : GroupIdNumbered(j) \in existingIds
        validPanelIds == SelectSeq(memberIds, LAMBDA id : id \in DOMAIN store)
    IN IF Len(validPanelIds) # Len(memberIds)
       THEN [ok |-> FALSE, groups |-> arr]
       ELSE [ok |-> TRUE,
             groups |-> Append(arr, [id |-> GroupIdNumbered(n),
                                     member_ids |-> validPanelIds])]

\* mockPanels at load time
mockPanels ==
    [p \in PanelIds |->
        IF p = "P01" THEN [level |-> Pct(50), last_change_ts |-> StartTime - MockAgeP01]
        ELSE [level |-> Pct(55), last_change_ts |-> StartTime - MockAgeP02]]

\* mockApi.setPanelLevel at time t: the new mockPanelState
mockSetPanelLevel(store, panelId, level, t) ==
    [p \in DOMAIN store |->
        IF p = panelId THEN [level |-> level, last_change_ts |-> t] ELSE store[p]]

\* mockApi.setGroupLevel at time t: the new mockPanelState
mockSetGroupLevel(store, groupId, level, t) ==
    [p \in DOMAIN store |->
        IF p \in Elems(GroupsOf(mockGroups)[groupId])
        THEN [level |-> level, last_change_ts |-> t] ELSE store[p]]

\* DwellGuard.CanChange
CanChangeAtExpiryOnly(lastChangeTs, t, minDwellSeconds) ==
    lastChangeTs = 0 \/ t - lastChangeTs = minDwellSeconds

CanChange(lastChangeTs, t, minDwellSeconds) ==
    lastChangeTs = 0 \/ t - lastChangeTs >= minDwellSeconds

\* a dwell check with its answer
Query(lastChangeTs, t, minDwellSeconds) ==
    [lastChangeTs |-> lastChangeTs, now |-> t, minDwellSeconds |-> minDwellSeconds,
     result |-> CanChange(lastChangeTs, t, minDwellSeconds)]

\* POST /commands/set-level for a panel: HTTP status and the service's panels
\* (422: the level is no integer within [0,100]; 429: inside the dwell time)
svcSetPanelLevel(store, panelId, level, t) ==
    IF ~IsLevel(level)
    THEN [status |-> 422, applied_to |-> <<>>, store |-> store]
    ELSE IF CanChange(store[panelId].last_change_ts, t, MinDwellSeconds)
    THEN [status |-> 200, applied_to |-> <<panelId>>,
          store |-> [p \in DOMAIN store |->
                        IF p = panelId THEN [level |-> level, last_change_ts |-> t]
                        ELSE store[p]]]
    ELSE [status |-> 429, applied_to |-> <<>>, store |-> store]

\* the statuses of the refusals that no later attempt can cure: the panel is
\* unknown to the service or to the device (404), the request is invalid (422)
RefusalStatuses == {404, 422}

\* the audit entry of one command: its target, level and fan-out
AuditEntry(targetId, level, applied_to) ==
    [target_id |-> targetId, level |-> level, applied_to |-> applied_to]

\* the entries the service writes for one set-level command, failed or not
svcAudit(targetId, level, applied_to) == <<AuditEntry(targetId, level, applied_to)>>

\* POST /commands/set-level for a group: the members past their dwell change
\* (404: the service holds no such group)
svcSetGroupLevel(store, groupStore, groupId, level, t) ==
    LET PastDwell(p) == CanChange(store[p].last_change_ts, t, MinDwellSeconds)
        applied == SelectSeq(groupStore[groupId], PastDwell)
    IN IF ~IsLevel(level)
       THEN [status |-> 422, applied_to |-> <<>>, store |-> store]
       ELSE IF groupId \notin DOMAIN groupStore
       THEN [status |-> 404, applied_to |-> <<>>, store |-> store]
       ELSE [status |-> 200, applied_to |-> applied,
             store |-> [p \in DOMAIN store |->
                          IF p \in Elems(applied)
                          THEN [level |-> level, last_change_ts |-> t]
                          ELSE store[p]]]

\* the panel of the tile, and the levels its slider and quick buttons give
TilePanel == "P01"
TileLevels == {Pct(0), Pct(25), Pct(50), Pct(100)}

\* the busy ids a tile can be handed: none, its own panel, another target

\* the effects of PanelTile after a render: localLevel once they have run.
\* levelChanged: panel.level is not what it was at the previous render
TileEffects(localLevel, busyId, level, levelChanged) ==
    LET synced == IF levelChanged THEN level ELSE localLevel
    IN IF busyId # TilePanel /\ synced # level THEN level ELSE synced

(* ---------------------------------------------------------------------- *)
(* Initial state                                                           *)
(* ---------------------------------------------------------------------- *)

Slots == 1..MaxCmds
Idle == [pc |-> "idle"]

Init ==
    /\ panelControls = EmptyMap
    /\ activeRoutines = EmptyMap
    /\ activeGroups = EmptyMap
    /\ last = [op |-> "none", source |-> NoSource, force |-> FALSE, conflicts |-> <<>>,
               prev |-> EmptyMap]
    /\ listeners = {}
    /\ received = [l \in Listeners |-> getActiveControllers(State)]
    /\ snapshot = getActiveControllers(State)
    /\ svcGroups = GroupMembers
    /\ query = Query(0, 0, 0)
    /\ mockGroups = <<[id |-> "G1", member_ids |-> GroupMembers["G1"]]>>
    /\ logsPanel = filteredAuditLogs(
          [auditLogs |-> <<>>, typeFilter |-> "all", targetFilter |-> <<>>,
           resultFilter |-> <<>>, startDate |-> NoDate, endDate |-> NoDate,
           sortField |-> "ts", sortDir |-> "desc", rows |-> <<>>])
    /\ tile = [localLevel |-> mockPanels[TilePanel].level,
               level |-> mockPanels[TilePanel].level, busyId |-> "null",
               sent |-> mockPanels[TilePanel].level,
               chosen |-> mockPanels[TilePanel].level]
    /\ now = StartTime
    /\ panels = EmptyMap
    /\ groups = EmptyMap
    /\ busy = "null"
    /\ usingMock = FALSE
    /\ transitioning = {}
    /\ shown = <<>>
    /\ appended = <<>>
    /\ cmds = [s \in Slots |-> Idle]
    /\ timers = <<>>
    /\ svcPanels = [p \in PanelIds |-> [level |-> 0, last_change_ts |-> 0]]
    /\ mockPanelState = mockPanels
    /\ online \in BOOLEAN
    /\ inflight = {}

notifyListenersNobody(st, subscribed, held) == held

\* notifyListeners once the state is st: what the components hold afterwards
notifyListeners(st, subscribed, held) ==
    [l \in Listeners |-> IF l \in subscribed THEN getActiveControllers(st) ELSE held[l]]

\* the state a method of the ControlManager ends with, and its notifyListeners()
SetState(st) ==
    /\ panelControls' = st.panelControls
    /\ activeRoutines' = st.activeRoutines
    /\ activeGroups' = st.activeGroups
    /\ received' = notifyListeners(st, listeners, received)
    /\ UNCHANGED listeners

(* ---------------------------------------------------------------------- *)
(* The ControlManager called directly                                      *)
(* ---------------------------------------------------------------------- *)

\* the type of the owner each panel of the list had before a call
PrevOwnerTypes(ids) ==
    [p \in Elems(ids) \cap DOMAIN panelControls |-> panelControls[p].type]

CallTakeControl ==
    \E source \in ControlSource, force \in BOOLEAN :
        LET r == takeControl(State, source, force, now) IN
        /\ SetState(r.state)
        /\ last' = [op |-> "takeControl", source |-> source, force |-> force,
                    conflicts |-> r.conflicts, success |-> r.success,
                    prev |-> PrevOwnerTypes(panelIdsOf(source))]
        /\ UNCHANGED <<auxVars, now, hmiVars, shown, appended>>

CallReleaseControl ==
    \E source \in ControlSource :
        /\ SetState(releaseControl(State, source))
        /\ last' = [op |-> "releaseControl", source |-> source, force |-> FALSE,
                    conflicts |-> <<>>,
                    prev |-> PrevOwnerTypes(panelIdsOf(source))]
        /\ UNCHANGED <<auxVars, now, hmiVars, shown, appended>>

CallClearAll ==
    /\ SetState(clearAllControls)
    /\ last' = [op |-> "clearAll", source |-> NoSource, force |-> FALSE,
                conflicts |-> <<>>, prev |-> EmptyMap]
    /\ UNCHANGED <<auxVars, now, hmiVars, shown, appended>>

NextCM == CallTakeControl \/ CallReleaseControl \/ CallClearAll

\* the backends play no part in the calls
InitCM == Init /\ online

\* the ControlManager under every sequence of calls
SpecCM == InitCM /\ [][NextCM]_vars

\* the sources of the calls made while a snapshot is held
SnapshotSources ==
    {ManualSource("P01"), GroupSource("G1", <<"P01", "P02">>),
     RoutineSource("R1", <<"P02">>)}

\* the three maps a held ControlState gives access to: its own, or, were they
\* not new objects, those of the manager
Contents(h) ==
    IF h.fresh
    THEN [panelControls |-> h.panelControls, activeRoutines |-> h.activeRoutines,
          activeGroups |-> h.activeGroups]
    ELSE State

\* what a holder can do to the maps: delete or set an entry
Edits(c) ==
    {[c EXCEPT !.panelControls = MapDelete(@, p)] : p \in PanelIds}
    \cup {[c EXCEPT !.panelControls = MapSet(@, p, ManualSource(p))] : p \in PanelIds}
    \cup {[c EXCEPT !.activeGroups = MapDelete(@, g)] : g \in GroupIds}

HmiUnchanged == UNCHANGED <<last, query, tile, mockGroups, logsPanel, now, hmiVars, shown,
              appended>>

CallGetActiveControllers ==
    /\ snapshot' = getActiveControllers(State)
    /\ UNCHANGED cmVars
    /\ HmiUnchanged

EditSnapshot ==
    \E c \in Edits(Contents(snapshot)) :
        /\ IF snapshot.fresh
           THEN /\ snapshot' = [fresh |-> TRUE, panelControls |-> c.panelControls,
                                activeRoutines |-> c.activeRoutines,
                                activeGroups |-> c.activeGroups]
                /\ UNCHANGED cmVars
           ELSE /\ SetState(c)
                /\ UNCHANGED snapshot
        /\ HmiUnchanged

TakeWhileHeld ==
    \E source \in SnapshotSources, force \in BOOLEAN :
        /\ SetState(takeControl(State, source, force, now).state)
        /\ UNCHANGED snapshot
        /\ HmiUnchanged

ReleaseWhileHeld ==
    \E source \in SnapshotSources :
        /\ SetState(releaseControl(State, source))
        /\ UNCHANGED snapshot
        /\ HmiUnchanged

ClearAllWhileHeld ==
    /\ SetState(clearAllControls)
    /\ UNCHANGED snapshot
    /\ HmiUnchanged

NextSnapshot ==
    \/ CallGetActiveControllers
    \/ EditSnapshot
    \/ TakeWhileHeld
    \/ ReleaseWhileHeld
    \/ ClearAllWhileHeld

\* the ControlManager and a caller that holds one ControlState it was given
SpecSnapshot == InitCM /\ [][NextSnapshot]_vars

\* a component mounts: useState(controlManager.getActiveControllers()), then
\* controlManager.subscribe(setControlState) in its effect
subscribe(l) ==
    /\ l \notin listeners
    /\ listeners' = listeners \cup {l}
    /\ received' = [received EXCEPT ![l] = getActiveControllers(State)]
    /\ UNCHANGED <<panelControls, activeRoutines, activeGroups, snapshot>>
    /\ HmiUnchanged

\* the function subscribe returned is called (the cleanup of the effect)
unsubscribe(l) ==
    /\ l \in listeners
    /\ listeners' = listeners \ {l}
    /\ UNCHANGED <<panelControls, activeRoutines, activeGroups, received, snapshot>>
    /\ HmiUnchanged

NextSubscribe ==
    \/ \E l \in Listeners : subscribe(l)
    \/ \E l \in Listeners : unsubscribe(l)
    \/ TakeWhileHeld
    \/ ReleaseWhileHeld
    \/ ClearAllWhileHeld

\* the ControlManager and the components that subscribe to it
SpecSubscribe == InitCM /\ [][NextSubscribe]_vars

TileUnchanged ==
    UNCHANGED <<cmVars, last, snapshot, query, mockGroups, logsPanel, now, hmiVars, shown,
                appended>>

\* the slider of the tile is moved to v
tileSliderChange(v) ==
    /\ tile.busyId # TilePanel
    /\ tile' = [tile EXCEPT
                   !.localLevel = TileEffects(v, tile.busyId, tile.level, FALSE),
                   !.chosen = v]
    /\ TileUnchanged

\* a quick button of the tile: setLocalLevel(v), onSet(panel.id, v), which
\* sets busy to the panel id before its first await
tileQuickButton(v) ==
    /\ tile.busyId # TilePanel
    /\ tile' = [tile EXCEPT
                   !.localLevel = TileEffects(v, TilePanel, tile.level, FALSE),
                   !.busyId = TilePanel, !.sent = v]
    /\ TileUnchanged

\* the Apply button of the tile: onSet(panel.id, localLevel). The button is
\* disabled while isBusy or localLevel === panel.level, which is every state
\* the tile reaches (ApplyIsDisabled), so it is no disjunct of NextTile
tileApply ==
    /\ tile.busyId # TilePanel
    /\ tile.localLevel # tile.level
    /\ tile' = [tile EXCEPT !.busyId = TilePanel, !.sent = tile.localLevel]
    /\ TileUnchanged

\* the command of the tile ends: the panels are refreshed (the level is the one
\* sent if the command was accepted) and busy is set to null
tileCommandEnds ==
    /\ tile.busyId = TilePanel
    /\ \E accepted \in BOOLEAN :
          LET level == IF accepted THEN tile.sent ELSE tile.level IN
          tile' = [tile EXCEPT
                      !.level = level, !.busyId = "null",
                      !.localLevel = TileEffects(tile.localLevel, "null", level,
                                                 level # tile.level)]
    /\ TileUnchanged

\* another handler sets busy (a command on another target starts or ends)
tileBusyChanges ==
    /\ \E b \in {"null", "P01", "P02"} \ {TilePanel, tile.busyId} :
          tile' = [tile EXCEPT
                      !.busyId = b,
                      !.localLevel = TileEffects(tile.localLevel, b, tile.level, FALSE)]
    /\ TileUnchanged

\* a refresh brings another level of the panel (a group command, Clear All)
tileLevelChanges ==
    /\ \E level \in TileLevels \ {tile.level} :
          tile' = [tile EXCEPT
                      !.level = level,
                      !.localLevel = TileEffects(tile.localLevel, tile.busyId, level, TRUE)]
    /\ TileUnchanged

NextTile ==
    \/ \E v \in TileLevels : tileSliderChange(v)
    \/ \E v \in TileLevels : tileQuickButton(v)
    \/ tileCommandEnds
    \/ tileBusyChanges
    \/ tileLevelChanges

\* one PanelTile, its props driven by AppHMI
SpecTile == InitCM /\ [][NextTile]_vars

\* disabled={isBusy || localLevel === panel.level} of the Apply button
ApplyIsDisabled == tile.busyId = TilePanel \/ tile.localLevel = tile.level

\* CanChange is asked with any arguments
AskCanChange ==
    /\ \E lastChangeTs \in 0..MaxQueryTime, t \in 0..MaxQueryTime,
          minDwellSeconds \in 0..MaxQueryDwell :
          query' = Query(lastChangeTs, t, minDwellSeconds)
    /\ UNCHANGED <<cmVars, last, snapshot, tile, mockGroups, logsPanel, now, hmiVars,
                   shown, appended>>

\* CanChange is asked again, a second later, for the same panel and dwell time
AskCanChangeLater ==
    /\ query.now < MaxQueryTime
    /\ query' = Query(query.lastChangeTs, query.now + 1, query.minDwellSeconds)
    /\ UNCHANGED <<cmVars, last, snapshot, tile, mockGroups, logsPanel, now, hmiVars,
                   shown, appended>>

\* the dwell check on its own
SpecCanChange == InitCM /\ [][AskCanChange \/ AskCanChangeLater]_vars

(* ---------------------------------------------------------------------- *)
(* Properties of the ControlManager                                        *)
(* ---------------------------------------------------------------------- *)

\* the identifying id of a source: panelId, groupId or routineId
IdOf(source) ==
    CASE source.type = "manual" -> source.panelId
      [] source.type = "group" -> source.groupId
      [] source.type = "routine" -> source.routineId

\* same type and same identifying id
SameIdentity(a, b) == a.type = b.type /\ IdOf(a) = IdOf(b)

Owned(p) == p \in DOMAIN panelControls

\* C1: a panel of the source's list that is claimed by a source of greater or
\* equal priority keeps its recorded owner under takeControl(source, false) and
\* is reported in conflicts; equal priority is a conflict too.
C1_EqualOrHigherOwnerConflicts ==
    \A source \in ControlSource : \A p \in Elems(panelIdsOf(source)) :
        (Owned(p) /\ getPriority(panelControls[p]) >= getPriority(source)) =>
            LET r == takeControl(State, source, FALSE, now) IN
            /\ p \in DOMAIN r.state.panelControls
            /\ r.state.panelControls[p] = panelControls[p]
            /\ p \in Elems(r.conflicts)
            /\ ~r.success

\* a non-forced claim of one group was just refused on a panel another group owns
C1_Witness ==
    /\ last.op = "takeControl" /\ ~last.force /\ last.source.type = "group"
    /\ \E p \in Elems(last.conflicts) :
          /\ Owned(p) /\ panelControls[p].type = "group"
          /\ panelControls[p].groupId # last.source.groupId
          /\ last.prev[p] = "group"

\* C2: releaseControl(source) removes the record of a panel iff the panel is in
\* the source's list and its owner has the source's type and id; the panel is
\* then unclaimed in getActiveControllers, and every other record is unchanged.
C2_ReleaseRemovesExactlyMatching ==
    \A source \in ControlSource :
        LET after == getActiveControllers(releaseControl(State, source)).panelControls IN
        /\ DOMAIN after \subseteq DOMAIN panelControls
        /\ \A p \in DOMAIN panelControls :
              LET matching == /\ p \in Elems(panelIdsOf(source))
                              /\ SameIdentity(panelControls[p], source)
              IN IF matching THEN p \notin DOMAIN after
                 ELSE p \in DOMAIN after /\ after[p] = panelControls[p]

\* a group's release just removed one of its panels and left a panel of its
\* list that another source owns
C2_Witness ==
    /\ last.op = "releaseControl" /\ last.source.type = "group"
    /\ \E p, q \in Elems(last.source.panelIds) :
          /\ p \in DOMAIN last.prev /\ ~Owned(p)
          /\ Owned(q) /\ ~SameIdentity(panelControls[q], last.source)

\* C3: a releaseControl(source) whose source owns no panel of its list leaves
\* the whole state read through getActiveControllers as it was.
C3_NonMatchingReleaseIsNoOp ==
    [][(/\ last'.op = "releaseControl"
        /\ \A p \in Elems(panelIdsOf(last'.source)) :
              ~(Owned(p) /\ SameIdentity(panelControls[p], last'.source)))
       => getActiveControllers(State)' = getActiveControllers(State)]_vars

\* the state of scenario B: P01 owned by a routine, P02 unclaimed
ScenarioB == /\ Owned("P01") /\ panelControls["P01"].type = "routine"
             /\ ~Owned("P02")

G1Source == GroupSource("G1", <<"P01", "P02">>)

\* C9 as stated: in scenario B the non-forced claim of G1 = {P01, P02} is granted
\* for P02 only; P01 is reported as a conflict and stays with the routine.
C9_GroupClaimConflictsWithRoutine ==
    [][(/\ ScenarioB
        /\ last'.op = "takeControl" /\ last'.source = G1Source /\ ~last'.force)
       => /\ last'.conflicts = <<"P01">>
          /\ panelControls'["P01"] = panelControls["P01"]
          /\ panelControls'["P02"] = G1Source]_vars

\* C9 as amended: in scenario B the non-forced claim of G1 is granted for both
\* panels (a routine has lower priority than a group): no conflict is reported
\* and P01 passes from the routine to the group.
C9_GroupClaimOverridesRoutine ==
    ScenarioB =>
        LET r == takeControl(State, G1Source, FALSE, now) IN
        /\ r.conflicts = <<>> /\ r.success
        /\ r.state.panelControls["P01"] = G1Source
        /\ r.state.panelControls["P02"] = G1Source

\* G1 was just claimed without force from scenario B
C9_Witness ==
    /\ last.op = "takeControl" /\ ~last.force /\ last.source = G1Source
    /\ last.prev = [p \in {"P01"} |-> "routine"]
    /\ last.conflicts = <<>>
    /\ panelControls["P01"] = G1Source /\ panelControls["P02"] = G1Source

\* C10: a forced group claim over panels of which some are owned by a routine
\* reports no conflict and leaves every panel of the group owned by the group;
\* a non-forced claim of a routine that follows is refused on each of them.
C10_ForcedGroupClaimRevokesRoutine ==
    \A source \in ControlSource :
        (/\ source.type = "group"
         /\ \E p \in Elems(source.panelIds) :
               Owned(p) /\ panelControls[p].type = "routine")
        => LET r == takeControl(State, source, TRUE, now) IN
           /\ r.conflicts = <<>> /\ r.success
           /\ \A p \in Elems(source.panelIds) : r.state.panelControls[p] = source
           /\ \A routine \in ControlSource :
                 routine.type = "routine" =>
                    LET r2 == takeControl(r.state, routine, FALSE, now) IN
                    \A p \in Elems(source.panelIds) \cap Elems(routine.panelIds) :
                        /\ p \in Elems(r2.conflicts)
                        /\ r2.state.panelControls[p] = source

\* a group was just claimed with force over a panel a routine owned
C10_Witness ==
    /\ last.op = "takeControl" /\ last.force /\ last.source.type = "group"
    /\ \E p \in DOMAIN last.prev :
          last.prev[p] = "routine" /\ panelControls[p] = last.source
    /\ last.conflicts = <<>>

(* ---------------------------------------------------------------------- *)
(* AppHMI: refresh, setPanel, setGroup, clearAll and the release timers    *)
(* ---------------------------------------------------------------------- *)

FreeSlots == {s \in Slots : cmds[s].pc = "idle"}
NewSlot == CHOOSE s \in FreeSlots : \A s2 \in FreeSlots : s <= s2

\* the order of the panels array
PanelOrder == <<"P01", "P02">>

\* a pending release timer was started for a source that covers a panel of ids
TimerCovers(ids) ==
    \E i \in 1..Len(timers) :
        Elems(panelIdsOf(timers[i].source)) \cap Elems(ids) # {}

\* an invocation of a handler that has sent its request and awaits the answer;
\* status and applied_to: the answer, once there; late: the request was accepted
\* while a release timer on one of its panels was pending
Awaiting(kind, target, level, source, rest) ==
    [pc |-> "api", kind |-> kind, target |-> target, level |-> level,
     mock |-> usingMock, source |-> source, rest |-> rest, status |-> 0,
     applied_to |-> <<>>, late |-> FALSE, successful |-> <<>>, failed |-> <<>>]

\* setTimeout(() => { ...; controlManager.releaseControl(source) }, 5000)
ReleaseTimer(source, late) == [source |-> source, late |-> late]

\* what the backend answers to the requests of one refresh(): the panels of the
\* service as they are when it reads them, or the array of mockApi, whose
\* elements are the objects of mockPanelState themselves
RefreshAnswer ==
    IF online THEN [mock |-> FALSE, panels |-> svcPanels, groups |-> svcGroups]
    ELSE [mock |-> TRUE]

\* the groups refresh() stores for the answer r
LoadedGroups(r) == IF r.mock THEN GroupsOf(mockGroups) ELSE r.groups

LoadedFirstOnly(r) ==
    IF panels # EmptyMap THEN panels
    ELSE IF r.mock THEN mockPanelState ELSE r.panels

\* the panels an answer holds when it is delivered
Loaded(r) == IF r.mock THEN mockPanelState ELSE r.panels

\* what refresh() stores when its requests are answered at once: the answers
\* of the service, or those of mockApi when a request to the service fails
RefreshApply ==
    /\ panels' = Loaded(RefreshAnswer)
    /\ groups' = LoadedGroups(RefreshAnswer)
    /\ usingMock' = RefreshAnswer.mock

\* refresh() on mount and on the 5 s interval
refresh ==
    /\ RefreshApply
    /\ shown' = <<>>
    /\ appended' = <<>>
    /\ UNCHANGED <<cmVars, last, auxVars, now, busy, transitioning, loopVars, storeVars>>

\* setPanel up to its first await: the claim, setBusy, the request
setPanel(panelId, level) ==
    /\ panelId \in DOMAIN panels
    /\ busy # panelId
    /\ FreeSlots # {}
    /\ LET existingControl == getControlSource(State, panelId)
           source == ManualSource(panelId)
           force == existingControl # NoSource /\ existingControl.type # "manual"
       IN /\ SetState(takeControl(State, source, force, now).state)
          /\ cmds' = [cmds EXCEPT ![NewSlot] =
                         Awaiting("panel", panelId, level, source, <<>>)]
    /\ busy' = panelId
    /\ shown' = <<>>
    /\ appended' = <<>>
    /\ UNCHANGED <<last, auxVars, now, panels, groups, usingMock, transitioning, timers,
                   storeVars>>

\* the answer to the request of a panel command, from mockApi or from the
\* service (status 0: the request failed, no answer), and the backends after it
PanelOutcome(c) ==
    IF c.mock
    THEN [status |-> 200, applied_to |-> <<c.target>>, svc |-> svcPanels,
          mock |-> mockSetPanelLevel(mockPanelState, c.target, c.level, now),
          audit |-> <<>>]
    ELSE IF ~online
    THEN [status |-> 0, applied_to |-> <<>>, svc |-> svcPanels,
          mock |-> mockPanelState, audit |-> <<>>]
    ELSE LET r == svcSetPanelLevel(svcPanels, c.target, c.level, now)
         IN [status |-> r.status, applied_to |-> r.applied_to, svc |-> r.store,
             mock |-> mockPanelState,
             audit |-> svcAudit(c.target, c.level, r.applied_to)]

\* the same for a group command
GroupOutcome(c) ==
    IF c.mock
    THEN [status |-> 200, applied_to |-> GroupsOf(mockGroups)[c.target],
          svc |-> svcPanels,
          mock |-> mockSetGroupLevel(mockPanelState, c.target, c.level, now),
          audit |-> <<>>]
    ELSE IF ~online
    THEN [status |-> 0, applied_to |-> <<>>, svc |-> svcPanels,
          mock |-> mockPanelState, audit |-> <<>>]
    ELSE LET r == svcSetGroupLevel(svcPanels, svcGroups, c.target, c.level, now)
         IN [status |-> r.status, applied_to |-> r.applied_to, svc |-> r.store,
             mock |-> mockPanelState,
             audit |-> svcAudit(c.target, c.level, r.applied_to)]

\* setPanel: the request is answered; the handler goes on to await refresh()
setPanelAnswered(s) ==
    /\ cmds[s].pc = "api" /\ cmds[s].kind = "panel"
    /\ LET o == PanelOutcome(cmds[s]) IN
          /\ svcPanels' = o.svc
          /\ mockPanelState' = o.mock
          /\ cmds' = [cmds EXCEPT ![s].pc = "refresh", ![s].status = o.status,
                         ![s].applied_to = o.applied_to,
                         ![s].late = o.status = 200
                                     /\ TimerCovers(<<cmds[s].target>>)]
          /\ appended' = o.audit
    /\ shown' = <<>>
    /\ UNCHANGED <<cmVars, last, auxVars, now, uiVars, timers, svcGroups, online, inflight>>

\* showToast(message, type): the toast of setPanel for the answer it got
Toast(type, message) == [type |-> type, message |-> message]
PanelToastAlwaysError(status) ==
    IF status = 200 THEN Toast("success", "panel set") ELSE Toast("error", "error")

PanelToastAlwaysSuccess(status) == Toast("success", "panel set")

PanelToast(status) ==
    IF status = 200 THEN Toast("success", "panel set")
    ELSE IF status = 429 THEN Toast("warning", "panel is busy")
    ELSE Toast("error", "error")

\* setPanel after refresh(): toast, transition indicator and release timer on
\* success; toast on failure; setBusy(null)
setPanelDone(s) ==
    /\ cmds[s].pc = "refresh" /\ cmds[s].kind = "panel"
    /\ RefreshApply
    /\ IF cmds[s].status = 200
       THEN /\ Len(timers) < MaxTimers
            /\ transitioning' = transitioning \cup {cmds[s].target}
            /\ timers' = Append(timers, ReleaseTimer(cmds[s].source, cmds[s].late))
       ELSE UNCHANGED <<transitioning, timers>>
    /\ shown' = <<PanelToast(cmds[s].status)>>
    /\ appended' = <<>>
    /\ busy' = "null"
    /\ cmds' = [cmds EXCEPT ![s] = Idle]
    /\ UNCHANGED <<cmVars, last, auxVars, now, storeVars>>

\* setGroup up to its first await, the claim granted or the override confirmed
setGroup(groupId, level) ==
    /\ groupId \in DOMAIN groups
    /\ busy # groupId
    /\ FreeSlots # {}
    /\ LET source == GroupSource(groupId, groups[groupId])
           result == takeControl(State, source, FALSE, now)
       IN /\ IF result.conflicts # <<>>
             THEN SetState(takeControl(result.state, source, TRUE, now).state)
             ELSE SetState(result.state)
          /\ cmds' = [cmds EXCEPT ![NewSlot] =
                         Awaiting("group", groupId, level, source, <<>>)]
    /\ busy' = groupId
    /\ shown' = <<>>
    /\ appended' = <<>>
    /\ UNCHANGED <<last, auxVars, now, panels, groups, usingMock, transitioning, timers,
                   storeVars>>

\* setGroup when the claim reports conflicts and the user declines the override
setGroupDeclined(groupId) ==
    /\ groupId \in DOMAIN groups
    /\ busy # groupId
    /\ LET source == GroupSource(groupId, groups[groupId])
           result == takeControl(State, source, FALSE, now)
       IN /\ result.conflicts # <<>>
          /\ SetState(result.state)
    /\ busy' = "null"
    /\ shown' = <<>>
    /\ appended' = <<>>
    /\ UNCHANGED <<last, auxVars, now, panels, groups, usingMock, transitioning, loopVars,
                   storeVars>>

\* setGroup: the request is answered: on to refresh(), or the catch block
setGroupAnswered(s) ==
    /\ cmds[s].pc = "api" /\ cmds[s].kind = "group"
    /\ LET o == GroupOutcome(cmds[s]) IN
          /\ svcPanels' = o.svc
          /\ mockPanelState' = o.mock
          /\ appended' = o.audit
          /\ IF o.status = 200
             THEN /\ cmds' = [cmds EXCEPT ![s].pc = "refresh", ![s].status = 200,
                                 ![s].applied_to = o.applied_to,
                                 ![s].late = TimerCovers(cmds[s].source.panelIds)]
                  /\ UNCHANGED busy
                  /\ shown' = <<>>
             ELSE /\ cmds' = [cmds EXCEPT ![s] = Idle]
                  /\ busy' = "null"
                  /\ shown' = <<Toast("error", "error")>>
    /\ UNCHANGED <<cmVars, last, auxVars, now, panels, groups, usingMock, transitioning,
                   timers, svcGroups, online, inflight>>

\* setGroup after refresh(): toast, release timer, setBusy(null)
setGroupDone(s) ==
    /\ cmds[s].pc = "refresh" /\ cmds[s].kind = "group"
    /\ RefreshApply
    /\ Len(timers) < MaxTimers
    /\ timers' = Append(timers, ReleaseTimer(cmds[s].source, cmds[s].late))
    /\ shown' = <<Toast("success", "group set")>>
    /\ appended' = <<>>
    /\ busy' = "null"
    /\ cmds' = [cmds EXCEPT ![s] = Idle]
    /\ UNCHANGED <<cmVars, last, auxVars, now, transitioning, storeVars>>

\* clearAll, confirmed, up to its first await: the first panel is claimed with
\* force and its request sent
clearAll ==
    /\ DOMAIN panels # {}
    /\ busy # "clear-all"
    /\ FreeSlots # {}
    /\ LET source == ManualSource(Head(PanelOrder)) IN
          /\ SetState(takeControl(State, source, TRUE, now).state)
          /\ cmds' = [cmds EXCEPT ![NewSlot] =
                         Awaiting("clear", Head(PanelOrder), 0, source,
                                  Tail(PanelOrder))]
    /\ busy' = "clear-all"
    /\ shown' = <<>>
    /\ appended' = <<>>
    /\ UNCHANGED <<last, auxVars, now, panels, groups, usingMock, transitioning, timers,
                   storeVars>>

RecordedIfSuccessful(c, status) ==
    IF status = 200
    THEN [c EXCEPT !.successful = Append(c.successful, c.target)]
    ELSE c

\* clearAll's loop body after the await: successful.push, or failed.push in the
\* catch block
Recorded(c, status) ==
    IF status = 200
    THEN [c EXCEPT !.successful = Append(c.successful, c.target)]
    ELSE [c EXCEPT !.failed = Append(c.failed, c.target)]

\* clearAll: the request of one panel is answered; the loop records the outcome
\* and goes on to the next panel, or to refresh() after the last
clearAllAnswered(s) ==
    /\ cmds[s].pc = "api" /\ cmds[s].kind = "clear"
    /\ LET o == PanelOutcome(cmds[s])
           c == cmds[s]
           c1 == Recorded(c, o.status)
       IN
          /\ svcPanels' = o.svc
          /\ mockPanelState' = o.mock
          /\ appended' = o.audit
          /\ IF o.status = 200
             THEN /\ Len(timers) < MaxTimers
                  /\ transitioning' = transitioning \cup {c.target}
                  /\ timers' = Append(timers,
                                  ReleaseTimer(c.source, TimerCovers(<<c.target>>)))
             ELSE UNCHANGED <<transitioning, timers>>
          /\ IF c.rest = <<>>
             THEN /\ cmds' = [cmds EXCEPT ![s] = [c1 EXCEPT !.pc = "refresh"]]
                  /\ UNCHANGED cmVars
             ELSE LET source == ManualSource(Head(c.rest)) IN
                  /\ SetState(takeControl(State, source, TRUE, now).state)
                  /\ cmds' = [cmds EXCEPT ![s] =
                                 [c1 EXCEPT !.target = Head(c.rest),
                                            !.source = source,
                                            !.rest = Tail(c.rest)]]
    /\ shown' = <<>>
    /\ UNCHANGED <<last, auxVars, now, panels, groups, busy, usingMock, svcGroups, online, inflight>>

\* clearAll after refresh(): the summary toast, setBusy(null)
clearAllDone(s) ==
    /\ cmds[s].pc = "refresh" /\ cmds[s].kind = "clear"
    /\ RefreshApply
    /\ shown' = <<IF Len(cmds[s].successful) = Len(PanelOrder)
                   THEN Toast("success", "all cleared")
                   ELSE IF Len(cmds[s].successful) > 0
                   THEN Toast("warning", "some skipped")
                   ELSE Toast("warning", "none cleared")>>
    /\ appended' = <<>>
    /\ busy' = "null"
    /\ cmds' = [cmds EXCEPT ![s] = Idle]
    /\ UNCHANGED <<cmVars, last, auxVars, now, transitioning, timers, storeVars>>

\* the oldest pending timer fires: the transition indicator of a panel command
\* is cleared and the command's source is released
timerFires ==
    /\ timers # <<>>
    /\ LET t == Head(timers) IN
          /\ transitioning' = IF t.source.type = "manual"
                              THEN transitioning \ {t.source.panelId}
                              ELSE transitioning
          /\ SetState(releaseControl(State, t.source))
    /\ timers' = Tail(timers)
    /\ shown' = <<>>
    /\ appended' = <<>>
    /\ UNCHANGED <<last, auxVars, now, panels, groups, busy, usingMock, cmds, storeVars>>

\* the clock advances
Tick ==
    /\ now < StartTime + MaxTicks * TickSeconds
    /\ now' = now + TickSeconds
    /\ shown' = <<>>
    /\ appended' = <<>>
    /\ UNCHANGED <<cmVars, last, auxVars, hmiVars>>

\* refresh, the panel and group commands and the release timers
NextCommands ==
    \/ refresh
    \/ \E panelId \in PanelIds, level \in LevelInputs : setPanel(panelId, level)
    \/ \E s \in Slots : setPanelAnswered(s)
    \/ \E s \in Slots : setPanelDone(s)
    \/ \E groupId \in DOMAIN GroupMembers, level \in LevelInputs :
          setGroup(groupId, level)
    \/ \E groupId \in DOMAIN GroupMembers : setGroupDeclined(groupId)
    \/ \E s \in Slots : setGroupAnswered(s)
    \/ \E s \in Slots : setGroupDone(s)
    \/ timerFires

NextClearAll ==
    \/ clearAll
    \/ \E s \in Slots : clearAllAnswered(s)
    \/ \E s \in Slots : clearAllDone(s)

Next == NextCommands \/ Tick

\* the HMI under every interleaving of panel and group commands, answers, release
\* timers, refreshes and the clock
Spec == Init /\ [][Next]_vars

\* the same with Clear All, all within one second
SpecClearAll == Init /\ [][NextCommands \/ NextClearAll]_vars

\* refresh() of the 5 s interval: the requests are sent and answered
refreshSent ==
    /\ Cardinality(inflight) < MaxRefresh
    /\ inflight' = inflight \cup {RefreshAnswer}
    /\ shown' = <<>>
    /\ appended' = <<>>
    /\ UNCHANGED <<cmVars, last, auxVars, now, uiVars, loopVars, svcPanels, mockPanelState,
                   svcGroups, online>>

\* the answers of one refresh() are delivered, in any order among the refreshes:
\* setPanels, setGroups, setUsingMock
refreshArrives ==
    \E r \in inflight :
        /\ panels' = Loaded(r)
        /\ groups' = LoadedGroups(r)
        /\ usingMock' = r.mock
        /\ inflight' = inflight \ {r}
        /\ shown' = <<>>
        /\ appended' = <<>>
        /\ UNCHANGED <<cmVars, last, auxVars, now, busy, transitioning, loopVars, svcPanels,
                       mockPanelState, svcGroups, online>>

NextRefresh ==
    \/ refreshSent
    \/ refreshArrives
    \/ \E panelId \in PanelIds, level \in LevelInputs : setPanel(panelId, level)
    \/ \E s \in Slots : setPanelAnswered(s)
    \/ \E s \in Slots : setPanelDone(s)
    \/ timerFires
    \/ Tick

\* the panel commands with the periodic refresh, its requests and answers apart
SpecRefresh == Init /\ [][NextRefresh]_vars

\* the same with commands on one panel only
NextRefreshOne ==
    \/ refreshSent
    \/ refreshArrives
    \/ \E level \in LevelInputs : setPanel(Head(PanelOrder), level)
    \/ \E s \in Slots : setPanelAnswered(s)
    \/ \E s \in Slots : setPanelDone(s)
    \/ timerFires
    \/ Tick

\* commands on one panel with the service reachable, the interval firing for
\* ever (setInterval(refresh, 5000)) and every answer delivered
SpecRefreshFair ==
    /\ InitCM
    /\ [][NextRefreshOne]_vars
    /\ WF_vars(refreshSent)
    /\ WF_vars(refreshArrives)

\* Set Group with the level typed into the group level input
setGroupTyped ==
    \E groupId \in DOMAIN GroupMembers, value \in TypedLevels :
        setGroup(groupId, GroupLevelInput(value))

NextLevels ==
    \/ refresh
    \/ setGroupTyped
    \/ \E s \in Slots : setGroupAnswered(s)
    \/ \E s \in Slots : setGroupDone(s)
    \/ timerFires
    \/ Tick

\* the group commands with typed levels
SpecLevels == Init /\ [][NextLevels]_vars

\* setPanel: the service refuses the request for good; http throws an Error
\* that carries the status, and the handler goes on to the refresh() of its
\* catch block
setPanelRefused(s) ==
    /\ cmds[s].pc = "api" /\ cmds[s].kind = "panel"
    /\ ~cmds[s].mock /\ online
    /\ \E status \in RefusalStatuses :
          cmds' = [cmds EXCEPT ![s].pc = "refresh", ![s].status = status]
    /\ appended' = svcAudit(cmds[s].target, cmds[s].level, <<>>)
    /\ shown' = <<>>
    /\ UNCHANGED <<cmVars, last, auxVars, now, uiVars, timers, storeVars>>

\* the panel commands are those on the first panel
NextRefusals ==
    \/ refresh
    \/ \E level \in LevelInputs : setPanel(Head(PanelOrder), level)
    \/ \E s \in Slots : setPanelRefused(s)
    \/ \E s \in Slots : setPanelAnswered(s)
    \/ \E s \in Slots : setPanelDone(s)
    \/ setGroupTyped
    \/ \E s \in Slots : setGroupAnswered(s)
    \/ \E s \in Slots : setGroupDone(s)
    \/ timerFires
    \/ Tick

\* the commands against a service that may refuse them
SpecRefusals == InitCM /\ [][NextRefusals]_vars

\* what updateGroup and deleteGroup store through their refresh() once the
\* service holds the groups newGroups
GroupsReloaded(newGroups) ==
    /\ svcGroups' = newGroups
    /\ groups' = newGroups
    /\ panels' = Loaded(RefreshAnswer)
    /\ usingMock' = FALSE

\* updateGroup against the service, its request and its refresh() answered at
\* once: the group gets the members memberIds
updateGroup(groupId, memberIds) ==
    /\ online /\ ~usingMock
    /\ groupId \in DOMAIN groups \cap DOMAIN svcGroups
    /\ memberIds # groups[groupId]
    /\ GroupsReloaded([svcGroups EXCEPT ![groupId] = memberIds])
    /\ shown' = <<Toast("success", "group updated")>>
    /\ appended' = <<>>
    /\ UNCHANGED <<cmVars, last, auxVars, now, busy, transitioning, loopVars, svcPanels,
                   mockPanelState, online, inflight>>

\* deleteGroup against the service, confirmed, its request and its refresh()
\* answered at once
deleteGroup(groupId) ==
    /\ online /\ ~usingMock
    /\ groupId \in DOMAIN groups \cap DOMAIN svcGroups
    /\ GroupsReloaded([g \in DOMAIN svcGroups \ {groupId} |-> svcGroups[g]])
    /\ shown' = <<Toast("success", "group deleted")>>
    /\ appended' = <<>>
    /\ UNCHANGED <<cmVars, last, auxVars, now, busy, transitioning, loopVars, svcPanels,
                   mockPanelState, online, inflight>>

\* the member lists the group editor is saved with; "P99" is no panel
NewMembers == PanelLists \cup {<<"P99">>, <<"P01", "P99">>}

\* what createGroup and updateGroup do in mock mode with the outcome r of
\* mockApi.createGroup: refresh() and the success toast, or the error toast
MockGroupSaved(r, message) ==
    /\ mockGroups' = r.groups
    /\ IF r.ok
       THEN /\ panels' = Loaded(RefreshAnswer)
            /\ groups' = IF RefreshAnswer.mock THEN GroupsOf(r.groups)
                         ELSE RefreshAnswer.groups
            /\ usingMock' = RefreshAnswer.mock
            /\ shown' = <<Toast("success", message)>>
       ELSE /\ shown' = <<Toast("error", "error")>>
            /\ UNCHANGED <<panels, groups, usingMock>>
    /\ appended' = <<>>
    /\ UNCHANGED <<cmVars, last, snapshot, query, tile, logsPanel, now, busy, transitioning,
                   loopVars, storeVars>>

\* createGroup in mock mode
createGroup(memberIds) ==
    /\ usingMock
    /\ Len(mockGroups) < MaxGroups
    /\ MockGroupSaved(mockCreateGroup(mockGroups, mockPanelState, memberIds),
                      "group created")

\* updateGroup in mock mode: it calls mockApi.createGroup
updateGroupInMock(groupId, memberIds) ==
    /\ usingMock
    /\ groupId \in DOMAIN groups
    /\ Len(mockGroups) < MaxGroups
    /\ MockGroupSaved(mockCreateGroup(mockGroups, mockPanelState, memberIds),
                      "group updated")

NextGroups ==
    \/ refresh
    \/ \E memberIds \in NewMembers : createGroup(memberIds)
    \/ \E groupId \in DOMAIN groups, memberIds \in NewMembers :
           updateGroupInMock(groupId, memberIds)

\* the service cannot be reached
InitMock == Init /\ ~online

\* the group editor against mockApi
SpecGroups == InitMock /\ [][NextGroups]_vars

LogsUnchanged ==
    UNCHANGED <<cmVars, last, snapshot, query, tile, mockGroups, now, hmiVars, shown,
                appended>>

\* loadAuditLogs against the service: setAuditLogs(rows)
loadAuditLogs(rows) ==
    /\ ~usingMock
    /\ rows # logsPanel.auditLogs
    /\ logsPanel' = filteredAuditLogs([logsPanel EXCEPT !.auditLogs = rows])
    /\ LogsUnchanged

setTypeFilter(v) ==
    /\ v # logsPanel.typeFilter
    /\ logsPanel' = filteredAuditLogs([logsPanel EXCEPT !.typeFilter = v])
    /\ LogsUnchanged

setTargetFilter(v) ==
    /\ v # logsPanel.targetFilter
    /\ logsPanel' = filteredAuditLogs([logsPanel EXCEPT !.targetFilter = v])
    /\ LogsUnchanged

setResultFilter(v) ==
    /\ v # logsPanel.resultFilter
    /\ logsPanel' = filteredAuditLogs([logsPanel EXCEPT !.resultFilter = v])
    /\ LogsUnchanged

setStartDate(v) ==
    /\ v # logsPanel.startDate
    /\ logsPanel' = filteredAuditLogs([logsPanel EXCEPT !.startDate = v])
    /\ LogsUnchanged

setEndDate(v) ==
    /\ v # logsPanel.endDate
    /\ logsPanel' = filteredAuditLogs([logsPanel EXCEPT !.endDate = v])
    /\ LogsUnchanged

\* a click on a column header
toggleSort(field) ==
    /\ logsPanel' =
          filteredAuditLogs(IF logsPanel.sortField = field
                   THEN [logsPanel EXCEPT
                            !.sortDir = IF @ = "asc" THEN "desc" ELSE "asc"]
                   ELSE [logsPanel EXCEPT !.sortField = field, !.sortDir = "desc"])
    /\ LogsUnchanged

NextLogs ==
    \/ \E rows \in UNION {[1..n -> AuditEntries] : n \in 0..MaxLogs} : loadAuditLogs(rows)
    \/ \E v \in {"all", "panel", "group"} : setTypeFilter(v)
    \* "", " ", "p0", "P01 ", "g"
    \/ \E v \in {<<>>, <<32>>, <<112, 48>>, <<80, 48, 49, 32>>, <<103>>} :
          setTargetFilter(v)
    \* "", "ok", "D"
    \/ \E v \in {<<>>, <<111, 107>>, <<68>>} : setResultFilter(v)
    \/ \E v \in {NoDate, 0, 1} : setStartDate(v)
    \/ \E v \in {NoDate, 0, 1} : setEndDate(v)
    \/ \E field \in {"ts", "actor", "target_type", "target_id", "level"} :
          toggleSort(field)

\* the audit log table under every sequence of loads, filter and sort changes
SpecLogs == InitCM /\ [][NextLogs]_vars

\* the Release button of an active group in the ActiveControllersBar
onCancelGroup(id) ==
    /\ id \in DOMAIN activeGroups
    /\ IF id \in DOMAIN groups
       THEN SetState(releaseControl(State, GroupSource(id, groups[id])))
       ELSE UNCHANGED cmVars
    /\ last' = [op |-> "onCancelGroup", groupId |-> id]
    /\ shown' = <<>>
    /\ appended' = <<>>
    /\ UNCHANGED <<auxVars, now, hmiVars>>

\* the member_ids an edit gives a group: the second panel is taken out
MemberEdits == {<<"P01">>}

\* the panel commands are those on the first panel
NextCancel ==
    \/ refresh
    \/ \E groupId \in DOMAIN GroupMembers, level \in LevelInputs :
          setGroup(groupId, level)
    \/ \E s \in Slots : setGroupAnswered(s)
    \/ \E s \in Slots : setGroupDone(s)
    \/ \E level \in LevelInputs : setPanel(Head(PanelOrder), level)
    \/ \E s \in Slots : setPanelAnswered(s)
    \/ \E s \in Slots : setPanelDone(s)
    \/ timerFires
    \/ \E groupId \in DOMAIN GroupMembers, memberIds \in MemberEdits :
          updateGroup(groupId, memberIds)
    \/ \E groupId \in DOMAIN GroupMembers : deleteGroup(groupId)
    \/ \E id \in GroupIds : onCancelGroup(id)

\* group commands, manual commands, edits of the groups and the Release button
SpecCancel == InitCM /\ [][NextCancel]_vars

\* every command handler, Clear All and the Release button included
NextClaims ==
    \/ NextCommands
    \/ NextClearAll
    \/ \E id \in GroupIds : onCancelGroup(id)

\* the commands, the cancels and the release timers, all within one second
SpecClaims == Init /\ [][NextClaims]_vars

NextManual ==
    \/ refresh
    \/ TakeWhileHeld
    \/ \E panelId \in PanelIds, level \in LevelInputs : setPanel(panelId, level)
    \/ \E s \in Slots : setPanelAnswered(s)
    \/ \E s \in Slots : setPanelDone(s)
    \/ timerFires

\* the panel commands on panels that a group, a routine or a manual source may
\* have claimed directly
SpecManual == InitCM /\ [][NextManual]_vars

(* ---------------------------------------------------------------------- *)
(* Properties of the HMI                                                   *)
(* ---------------------------------------------------------------------- *)

\* C4: when a release timer fires and removes the record of a panel, no command
\* on that panel that was accepted while an earlier release timer was pending
\* still waits for its own release timer: the panel stays claimed until the
\* release of the later command.
C4_StaleReleaseKeepsLaterClaim ==
    [][(timers # <<>> /\ timers' = Tail(timers))
       => \A p \in DOMAIN panelControls \ DOMAIN panelControls' :
             ~\E i \in 2..Len(timers) :
                 /\ timers[i].late
                 /\ p \in Elems(panelIdsOf(timers[i].source))]_vars

\* C5: a group command whose claim reports a conflict and whose override is
\* declined sends no request and leaves the panel ownership and the active
\* groups as they were.
C5_DeclinedGroupCommandChangesNothing ==
    [][(\E groupId \in DOMAIN GroupMembers : setGroupDeclined(groupId))
       => /\ cmds' = cmds
          /\ panelControls' = panelControls
          /\ activeGroups' = activeGroups]_vars

\* no handler is running and no release timer is pending
Quiescent == timers = <<>> /\ \A s \in Slots : cmds[s] = Idle

\* C6: once every panel command has its final outcome, accepted or failed, and
\* every release timer has fired, no panel is left with the manual ownership
\* record a panel command created.
C6_PanelClaimsAreReleased ==
    Quiescent => \A p \in PanelIds : ~(Owned(p) /\ panelControls[p].type = "manual")

\* C7: a request the backend answers with success changes each panel it applies
\* to at least MinDwellSeconds after the previous committed change of that panel.
C7_MinDwellBetweenCommits ==
    [][\A s \in Slots :
          (cmds[s].pc = "api" /\ cmds'[s].pc = "refresh" /\ cmds'[s].status = 200)
          => \A p \in Elems(cmds'[s].applied_to) :
                LET before == IF cmds[s].mock THEN mockPanelState[p]
                              ELSE svcPanels[p]
                    after == IF cmds[s].mock THEN mockPanelState'[p]
                             ELSE svcPanels'[p]
                IN after.last_change_ts - before.last_change_ts >= MinDwellSeconds]_vars

\* C8: a manual command on a panel that a manual command already owns, with no
\* release in between, sends no request.
C8_RepeatedManualCommandSendsNoRequest ==
    [][\A panelId \in PanelIds :
          (/\ Owned(panelId) /\ panelControls[panelId] = ManualSource(panelId)
           /\ \E level \in LevelInputs : setPanel(panelId, level))
          => cmds' = cmds]_vars

\* C11: a panel command the backend answers with 429 changes no panel of either
\* backend and applies to none; when it ends it starts no transition and no
\* release timer, and shows the one warning that the panel is busy.
C11_DwellRejectionChangesNothing ==
    [][\A s \in Slots :
          /\ (/\ cmds[s].pc = "api" /\ cmds[s].kind = "panel"
              /\ cmds'[s].pc = "refresh" /\ cmds'[s].status = 429)
             => /\ svcPanels' = svcPanels /\ mockPanelState' = mockPanelState
                /\ cmds'[s].applied_to = <<>>
          /\ (/\ cmds[s].pc = "refresh" /\ cmds[s].kind = "panel"
              /\ cmds[s].status = 429 /\ cmds'[s].pc = "idle")
             => /\ transitioning' = transitioning /\ timers' = timers
                /\ shown' = <<Toast("warning", "panel is busy")>>]_vars

\* a panel command inside the dwell window of its panel has just ended with
\* the warning
C11_Witness ==
    /\ shown = <<Toast("warning", "panel is busy")>>
    /\ \E p \in PanelIds :
          /\ ~CanChange(svcPanels[p].last_change_ts, now, MinDwellSeconds)
          /\ p \notin transitioning

\* C12: every invocation of setPanel or setGroup ends with exactly one toast and
\* with the busy marker cleared, the invocation whose override is declined
\* included.
C12_EveryCommandEndsWithOneToast ==
    [][/\ \A s \in Slots :
             (/\ cmds[s].pc # "idle" /\ cmds'[s].pc = "idle"
              /\ cmds[s].kind \in {"panel", "group"})
             => Len(shown') = 1 /\ busy' = "null"
       /\ (\E groupId \in DOMAIN GroupMembers : setGroupDeclined(groupId))
             => Len(shown') = 1 /\ busy' = "null"]_vars

\* C13: every command that is executed or rejected adds exactly one entry to the
\* audit log: the command a backend answers, when it is answered, and the group
\* command whose override is declined, when it is rejected.
C13_OneAuditEntryPerCommand ==
    [][/\ \A s \in Slots :
             (cmds[s].pc = "api" /\ cmds'[s] # cmds[s]) => Len(appended') = 1
       /\ (\E groupId \in DOMAIN GroupMembers : setGroupDeclined(groupId))
             => Len(appended') = 1]_vars

\* C14: in every reachable state the level of every panel, in the service, in
\* mockApi and in the panels the HMI has loaded, is an integer within [0,100].
C14_LevelsAreIntegersInRange ==
    \A p \in PanelIds :
        /\ IsLevel(svcPanels[p].level)
        /\ IsLevel(mockPanelState[p].level)
        /\ p \in DOMAIN panels => IsLevel(panels[p].level)

\* C15: the last-change timestamp of a panel in the panels the HMI holds never
\* decreases, whatever the order of commands, refreshes and their answers.
C15_TimestampNeverDecreases ==
    [][\A p \in DOMAIN panels \cap DOMAIN panels' :
          panels'[p].last_change_ts >= panels[p].last_change_ts]_vars

\* C16: getActiveControllers changes nothing in the manager's state; a snapshot
\* it returned is not altered by a later takeControl, releaseControl or
\* clearAll; and setting or deleting entries of the returned maps does not alter
\* the manager's state.
C16_SnapshotIsReadOnly ==
    [][/\ snapshot' = snapshot => Contents(snapshot)' = Contents(snapshot)
       /\ snapshot' # snapshot => UNCHANGED cmVars]_vars

\* a snapshot is held that the manager's state has moved away from
C16_Witness ==
    /\ snapshot.panelControls # EmptyMap
    /\ panelControls # EmptyMap
    /\ Contents(snapshot) # State

\* the panels the HMI holds show the level the service has for p
ShowsBackendLevel(p) ==
    p \in DOMAIN panels /\ panels[p].level = svcPanels[p].level

\* C17: with the service reachable and the interval firing, once the service
\* has committed a level change of a panel the panels the HMI holds eventually
\* show the service's level of that panel.
C17_CommittedLevelIsEventuallyShown ==
    \A p \in PanelIds :
        (online /\ svcPanels[p].last_change_ts # 0) ~> ShowsBackendLevel(p)

\* the service has committed a change of a panel and the HMI shows its level
C17_Witness ==
    \E p \in PanelIds :
        /\ online /\ svcPanels[p].last_change_ts # 0
        /\ svcPanels[p].level = Pct(80)
        /\ ShowsBackendLevel(p)

\* C18: CanChange is monotonic in now: a check that answers true answers true
\* at every later time, for the same last change and the same dwell time.
C18_CanChangeIsMonotonic ==
    query.result =>
        \A t \in query.now..MaxQueryTime :
            CanChange(query.lastChangeTs, t, query.minDwellSeconds)

\* a check was answered true exactly when the dwell time had elapsed
C18_Witness ==
    /\ query.result
    /\ query.lastChangeTs # 0 /\ query.minDwellSeconds > 0
    /\ query.now - query.lastChangeTs = query.minDwellSeconds
    /\ query.now < MaxQueryTime

\* a step that sends a level-change request to a backend
RequestSent ==
    \E s \in Slots : cmds'[s].pc = "api" /\ cmds[s] # cmds'[s]

\* the command of slot s was refused for good by the service
Refused(s) == cmds[s].pc = "refresh" /\ cmds[s].status \in RefusalStatuses

OwnedByGroup(st, id) ==
    {p \in DOMAIN st.panelControls :
        /\ st.panelControls[p].type = "group"
        /\ st.panelControls[p].groupId = id}

\* C20: after the Release button of an active group is pressed, no panel is
\* owned by that group and the group is not among the active groups, whatever
\* happened since the claim (members edited, group deleted, panels taken over
\* by manual commands).
C20_CancelReleasesTheGroup ==
    [][\A id \in GroupIds :
          onCancelGroup(id)
              => /\ id \notin DOMAIN activeGroups'
                 /\ OwnedByGroup(State, id)' = {}]_vars

\* takeControl is to grant the panel p of its list: p has no owner, or an owner
\* of strictly lower priority, or the call is forced
Grantable(p, source, force) ==
    \/ p \notin DOMAIN panelControls
    \/ getPriority(panelControls[p]) < getPriority(source)
    \/ force

\* C23: takeControl(source, force) records the source as owner of exactly the
\* panels of its list that are unclaimed, owned at strictly lower priority, or
\* any when forced; conflicts is the rest of the list, in order; success is
\* true iff conflicts is empty; the other panels of the list and every panel
\* outside the list keep their owner.
C23_TakeControlGrantsExactly ==
    [][last'.op = "takeControl"
       => LET source == last'.source
              ids == panelIdsOf(source)
              granted == {p \in Elems(ids) : Grantable(p, source, last'.force)}
          IN /\ \A p \in granted :
                   p \in DOMAIN panelControls' /\ panelControls'[p] = source
             /\ \A p \in PanelIds \ granted :
                   /\ (p \in DOMAIN panelControls') = (p \in DOMAIN panelControls)
                   /\ p \in DOMAIN panelControls
                         => panelControls'[p] = panelControls[p]
             /\ last'.conflicts = SelectSeq(ids, LAMBDA p : p \notin granted)
             /\ last'.success = (last'.conflicts = <<>>)]_vars

\* an unforced group claim took P01 from a routine and was refused P02, which a
\* manual source keeps
C23_Witness ==
    /\ last.op = "takeControl" /\ ~last.force /\ last.source.type = "group"
    /\ last.source.panelIds = <<"P01", "P02">>
    /\ last.prev = [p \in PanelIds |-> IF p = "P01" THEN "routine" ELSE "manual"]
    /\ last.conflicts = <<"P02">> /\ ~last.success
    /\ panelControls["P01"] = last.source
    /\ panelControls["P02"] = ManualSource("P02")

\* the panels the routine id owns in state st
OwnedByRoutine(st, id) ==
    {p \in DOMAIN st.panelControls :
        /\ st.panelControls[p].type = "routine"
        /\ st.panelControls[p].routineId = id}

\* C28: the active lists agree with the ownership map: a group id is in
\* activeGroups iff some panel is owned by a source of that group, and a routine
\* id is in activeRoutines iff some panel is owned by a source of that routine.
C28_ActiveListsAgreeWithOwnership ==
    /\ \A g \in GroupIds :
          (g \in DOMAIN activeGroups) <=> (OwnedByGroup(State, g) # {})
    /\ \A r \in RoutineIds :
          (r \in DOMAIN activeRoutines) <=> (OwnedByRoutine(State, r) # {})

\* C24: after every step every subscribed component holds a ControlState equal
\* to the manager's state (each takeControl, releaseControl and clearAll
\* delivers it), and a component that is not subscribed receives nothing.
C24_SubscribersHoldTheState ==
    [][/\ \A l \in listeners' : received'[l] = getActiveControllers(State)'
       /\ \A l \in Listeners \ (listeners \cup listeners') :
             received'[l] = received[l]]_vars

\* L1 holds the state after a group claim it was notified of, L2 unsubscribed
\* before that claim and holds the empty state it read at mount
C24_Witness ==
    /\ listeners = {"L1"}
    /\ DOMAIN activeGroups = {"G1"}
    /\ received["L1"] = getActiveControllers(State)
    /\ received["L2"] # received["L1"]

\* C25: when the request of a panel command is sent, the panel is owned by the
\* manual source of that panel, whoever owned it when setPanel was invoked.
C25_ManualOwnsWhenRequestIsSent ==
    [][\A s \in Slots :
          (/\ cmds[s].pc # "api" /\ cmds'[s].pc = "api"
           /\ cmds'[s].kind = "panel")
              => LET panelId == cmds'[s].target IN
                    /\ panelId \in DOMAIN panelControls'
                    /\ panelControls'[panelId] = ManualSource(panelId)]_vars

\* the request of a panel command on P02 is out and the manual source owns
\* P02, while the routine that claimed P02 is listed and owns nothing any more
C25_Witness ==
    /\ \E s \in Slots :
          cmds[s].pc = "api" /\ cmds[s].kind = "panel" /\ cmds[s].target = "P02"
    /\ getControlSource(State, "P02") = ManualSource("P02")
    /\ "R1" \in DOMAIN activeRoutines /\ OwnedByRoutine(State, "R1") = {}
    /\ DOMAIN activeGroups = {}

\* the panels the level-change request of the invocation c targets: the panel,
\* or the members the backend holds for the group
RequestTargets(c) ==
    IF c.kind = "group"
    THEN IF c.mock THEN GroupsOf(mockGroups)[c.target] ELSE svcGroups[c.target]
    ELSE <<c.target>>

\* C26: a level-change request is sent after the claim, and when it is sent the
\* requesting source (same type and id) is the recorded owner of every panel the
\* request targets; for setPanel, setGroup and clearAll, in any interleaving
\* with other commands, cancels and release timers.
C26_RequesterOwnsItsTargets ==
    [][\A s \in Slots :
          (cmds'[s].pc = "api" /\ cmds'[s] # cmds[s])
              => \A p \in Elems(RequestTargets(cmds'[s])) :
                    /\ p \in DOMAIN panelControls'
                    /\ SameIdentity(panelControls'[p], cmds'[s].source)]_vars

\* the request of a group command is out, the group owns both panels, and a
\* panel command that claimed P01 before still awaits its answer
C26_Witness ==
    \E s, s2 \in Slots :
        /\ cmds[s].pc = "api" /\ cmds[s].kind = "group"
        /\ cmds[s2].pc = "api" /\ cmds[s2].kind = "panel" /\ cmds[s2].target = "P01"
        /\ \A p \in PanelIds :
              getControlSource(State, p) = cmds[s].source

\* C21: in Clear All the requests are independent per panel: whatever the answer
\* for one panel, that panel is recorded in exactly one of successful / failed
\* and the request for the next panel of the list is sent; when the loop is
\* over, every panel is in exactly one of the two lists.
C21_EveryPanelHasOneOutcome ==
    [][\A s \in Slots :
          (/\ cmds[s].pc = "api" /\ cmds[s].kind = "clear"
           /\ cmds'[s] # cmds[s])
              => LET c == cmds[s]
                     d == cmds'[s]
                 IN /\ \/ /\ d.successful = Append(c.successful, c.target)
                          /\ d.failed = c.failed
                       \/ /\ d.failed = Append(c.failed, c.target)
                          /\ d.successful = c.successful
                    /\ c.rest # <<>>
                          => d.pc = "api" /\ d.target = Head(c.rest)
                    /\ c.rest = <<>>
                          => /\ d.pc = "refresh"
                             /\ Elems(d.successful) \cup Elems(d.failed)
                                    = Elems(PanelOrder)
                             /\ Elems(d.successful) \cap Elems(d.failed) = {}
                             /\ Len(d.successful) + Len(d.failed)
                                    = Len(PanelOrder)]_vars

\* Clear All is over its loop: the first panel failed, the second was cleared
C21_Witness ==
    \E s \in Slots :
        /\ cmds[s].pc = "refresh" /\ cmds[s].kind = "clear"
        /\ cmds[s].failed = <<"P01">> /\ cmds[s].successful = <<"P02">>

\* C29: while a panel command or a group command awaits the answer of the
\* backend, busy is the id of its target.
C29_BusyWhileAwaiting ==
    \A s \in Slots :
        (cmds[s].pc = "api" /\ cmds[s].kind \in {"panel", "group"})
            => busy = cmds[s].target

\* C30: a level chosen with the slider of a tile while no command of the tile
\* is in flight is the tile's localLevel afterwards (it stays selected, so that
\* Apply sends it).
C30_SliderChoiceStaysSelected ==
    [][\A v \in TileLevels : tileSliderChange(v) => tile'.localLevel = v]_vars

\* every member id of every group references a panel and no two groups have
\* the same id
GroupsAreWellFormed(arr, store) ==
    /\ \A i \in 1..Len(arr) : Elems(arr[i].member_ids) \subseteq DOMAIN store
    /\ \A i, j \in 1..Len(arr) : arr[i].id = arr[j].id => i = j

\* C22: every member id of every group of mockApi references an existing panel
\* and group ids are unique; a step of the group editor either adds no group,
\* or adds one group with a fresh id whose members all exist
C22_GroupsReferenceExistingPanels ==
    [][/\ GroupsAreWellFormed(mockGroups', mockPanelState')
       /\ \/ mockGroups' = mockGroups
          \/ \E g \in [id : {GroupIdNumbered(n) : n \in 1..MaxGroups},
                        member_ids : NewMembers] :
                /\ mockGroups' = Append(mockGroups, g)
                /\ \A i \in 1..Len(mockGroups) : mockGroups[i].id # g.id
                /\ Elems(g.member_ids) \subseteq DOMAIN mockPanelState]_vars

\* a group was created and a creation with an unknown panel id has failed
C22_Witness ==
    /\ Len(mockGroups) > Cardinality(DOMAIN GroupMembers)
    /\ GroupsAreWellFormed(mockGroups, mockPanelState)
    /\ shown = <<Toast("error", "error")>>

\* the entry r satisfies every active filter of the LogsPanel p: a filter text
\* counts without the blanks around it, a date range runs from the start of
\* its first day to the end of its last day
SatisfiesFilters(p, r) ==
    /\ p.typeFilter # "all" => r.target_type = p.typeFilter
    /\ trim(p.targetFilter) # <<>> =>
          \/ includes(toLowerCase(r.target_id), toLowerCase(trim(p.targetFilter)))
          \/ \E i \in 1..Len(r.applied_to) :
                includes(toLowerCase(r.applied_to[i]), toLowerCase(trim(p.targetFilter)))
    /\ trim(p.resultFilter) # <<>> =>
          includes(toLowerCase(r.result), toLowerCase(trim(p.resultFilter)))
    /\ p.startDate # NoDate => r.ts >= p.startDate * (MsPerDay * TicksPerMs)
    /\ p.endDate # NoDate => r.ts < (p.endDate + 1) * (MsPerDay * TicksPerMs)

\* C27: the rows shown are exactly the loaded entries that satisfy every active
\* filter, in the order of the selected sort field and direction, and a change
\* of a filter or of the sorting leaves the loaded list as it was
C27_RowsAreTheFilteredEntries ==
    [][LET p == logsPanel'
           expected == SelectSeq(p.auditLogs, LAMBDA r : SatisfiesFilters(p, r))
       IN /\ \A e \in AuditEntries :
                Cardinality({i \in 1..Len(p.rows) : p.rows[i] = e})
                    = Cardinality({i \in 1..Len(expected) : expected[i] = e})
          /\ \A i, j \in 1..Len(p.rows) :
                i < j => Compare(p.rows[i], p.rows[j], p.sortField, p.sortDir) <= 0
          /\ [logsPanel EXCEPT !.auditLogs = <<>>, !.rows = <<>>]
                 # [p EXCEPT !.auditLogs = <<>>, !.rows = <<>>]
             => p.auditLogs = logsPanel.auditLogs]_vars

====
